---------------------------- MODULE Spec2Model ----------------------------
(***************************************************************************)
(* A model of the CHIP-8 interpreter of src/chip8.cpp: the Chip8 class     *)
(* (memory, registers, stack, display, keypad, timers, redraw flag), its   *)
(* operations loadROM, emulateCycle (fetchOpcode + executeOpcode + timer   *)
(* tick), renderDisplay and setKeyState, and the driver loop of main that  *)
(* calls them.                                                             *)
(*                                                                         *)
(* The arrays of the class are std::array objects indexed with operator[], *)
(* which performs no range check.  An access outside an array is undefined *)
(* behaviour.  The model records every such access in the variable oob and *)
(* resolves it nondeterministically: a read yields an arbitrary value, a   *)
(* write lands outside the array (the array keeps its contents), and the   *)
(* process may crash instead of completing the operation.                  *)
(***************************************************************************)
EXTENDS Integers, Sequences, FiniteSets, TLC

(***************************************************************************)
(* Program constants (src/chip8.cpp:12-19).                                *)
(***************************************************************************)
MEMORY_SIZE == 4096
REGISTER_COUNT == 16
STACK_SIZE == 16
KEYPAD_SIZE == 16
DISPLAY_WIDTH == 64
DISPLAY_HEIGHT == 32
PROGRAM_START == 512
FONTSET_SIZE == 80
\* The fixed address the constructor copies the fontset to (0x50).
FONT_BASE == 80

(***************************************************************************)
(* Bounds of the model.                                                    *)
(***************************************************************************)
\* Key events offered to the driver: the first MaxKeySym entries of KeySyms.
MaxKeySym == 2
\* rand() % 256 is drawn from 0..MaxRand and 255.
MaxRand == 1

(***************************************************************************)
(* Fixed-width integers.                                                   *)
(***************************************************************************)
U8(n) == n % 256
U16(n) == n % 65536

RECURSIVE BitAnd(_, _)
BitAnd(a, b) ==
    IF a = 0 \/ b = 0 THEN 0
    ELSE (a % 2) * (b % 2) + 2 * BitAnd(a \div 2, b \div 2)

RECURSIVE BitOr(_, _)
BitOr(a, b) ==
    IF a = 0 THEN b
    ELSE IF b = 0 THEN a
    ELSE (IF a % 2 = 1 \/ b % 2 = 1 THEN 1 ELSE 0) + 2 * BitOr(a \div 2, b \div 2)

RECURSIVE BitXor(_, _)
BitXor(a, b) ==
    IF a = 0 THEN b
    ELSE IF b = 0 THEN a
    ELSE ((a + b) % 2) + 2 * BitXor(a \div 2, b \div 2)

\* 0x80 >> col, for col in 0..7
SpriteMask(col) == 2 ^ (7 - col)

(***************************************************************************)
(* The built-in font (src/chip8.cpp:73-90).                                *)
(***************************************************************************)
fontset ==
    << \hF0, \h90, \h90, \h90, \hF0,
       \h20, \h60, \h20, \h20, \h70,
       \hF0, \h10, \hF0, \h80, \hF0,
       \hF0, \h10, \hF0, \h10, \hF0,
       \h90, \h90, \hF0, \h10, \h10,
       \hF0, \h80, \hF0, \h10, \hF0,
       \hF0, \h80, \hF0, \h90, \hF0,
       \hF0, \h10, \h20, \h40, \h40,
       \hF0, \h90, \hF0, \h90, \hF0,
       \hF0, \h90, \hF0, \h10, \hF0,
       \hF0, \h90, \hF0, \h90, \h90,
       \hE0, \h90, \hE0, \h90, \hE0,
       \hF0, \h80, \h80, \h80, \hF0,
       \hE0, \h90, \h90, \h90, \hE0,
       \hF0, \h80, \hF0, \h80, \hF0,
       \hF0, \h80, \hF0, \h80, \h80 >>


(***************************************************************************)
(* The state of the program.                                               *)
(***************************************************************************)
VARIABLES
    memory,      \* std::array<uint8_t, MEMORY_SIZE>
    V,           \* std::array<uint8_t, REGISTER_COUNT>
    I,           \* uint16_t
    pc,          \* uint16_t
    stack,       \* std::array<uint16_t, STACK_SIZE>
    sp,          \* uint16_t
    display,     \* std::array<uint8_t, DISPLAY_WIDTH * DISPLAY_HEIGHT>
    keypad,      \* std::array<uint8_t, KEYPAD_SIZE>
    delayTimer,  \* uint8_t
    soundTimer,  \* uint8_t
    drawFlag,    \* bool
    opcode,      \* the opcode fetched by the last emulateCycle
    blocked,     \* the last executeOpcode left through the return of Fx0A
    diag,        \* the message the last operation wrote to std::cerr
    oob,         \* the accesses outside an array made by the last operation
    romFile,     \* the file main passes to loadROM
    running,     \* main's loop variable
    phase,       \* main's position
    lastDisplay, \* history: display at the start of the last emulateCycle
    lastV,       \* history: V at the start of the last emulateCycle
    rendered     \* history: renderDisplay ran since the last emulateCycle

vars ==
    << memory, V, I, pc, stack, sp, display, keypad, delayTimer, soundTimer,
       drawFlag, opcode, blocked, diag, oob, romFile, running, phase,
       lastDisplay, lastV, rendered >>

\* The fields of a Chip8 object, with the observations of one operation.
Machine ==
    [ memory |-> memory, V |-> V, I |-> I, pc |-> pc, stack |-> stack,
      sp |-> sp, display |-> display, keypad |-> keypad,
      delayTimer |-> delayTimer, soundTimer |-> soundTimer,
      drawFlag |-> drawFlag, blocked |-> FALSE, diag |-> "none", oob |-> {} ]

\* An access outside array arr at index idx.
OobAccess(arr, idx, kind) == [arr |-> arr, idx |-> idx, kind |-> kind]

\* Values an out-of-array read may yield.
Garbage8 == {0, 255}
Garbage16 == {0, 65535}
GarbageBit == {0, 1}
GarbageInputs == [g8 : Garbage8, g16 : Garbage16, bit : GarbageBit]

\* memory[a], read
ReadMem(m, a, g) == IF a < MEMORY_SIZE THEN m.memory[a] ELSE g.g8

NoteReadMem(m, a) ==
    IF a < MEMORY_SIZE THEN m
    ELSE [m EXCEPT !.oob = @ \cup {OobAccess("memory", a, "read")}]

\* memory[a] = v
WriteMem(m, a, v) ==
    IF a < MEMORY_SIZE THEN [m EXCEPT !.memory[a] = v]
    ELSE [m EXCEPT !.oob = @ \cup {OobAccess("memory", a, "write")}]

\* pc += k on a uint16_t
AdvancePc(m, k) == [m EXCEPT !.pc = U16(m.pc + k)]

(***************************************************************************)
(* Chip8::Chip8                                                            *)
(***************************************************************************)
InitMemory ==
    [a \in 0..(MEMORY_SIZE - 1) |->
        IF a >= FONT_BASE /\ a < FONT_BASE + FONTSET_SIZE
        THEN fontset[a - FONT_BASE + 1] ELSE 0]

ClearDisplay == [i \in 0..(DISPLAY_WIDTH * DISPLAY_HEIGHT - 1) |-> 0]

(***************************************************************************)
(* Chip8::fetchOpcode                                                      *)
(***************************************************************************)
fetchOpcode(m, g) == ReadMem(m, m.pc, g) * 256 + ReadMem(m, m.pc + 1, g)

NoteFetch(m) ==
    [m EXCEPT !.oob = @ \cup
        {OobAccess("memory", a, "fetch") : a \in {m.pc, m.pc + 1} \ (0..(MEMORY_SIZE - 1))}]

(***************************************************************************)
(* Chip8::executeOpcode, one operator per case.                            *)
(***************************************************************************)
OpX(op) == (op \div 256) % 16
OpY(op) == (op \div 16) % 16
OpN(op) == op % 16
OpNN(op) == op % 256
OpNNN(op) == op % 4096

\* Mutant of 00E0: the display is cleared without drawFlag = true
Op00E0_NoFlag(m) == AdvancePc([m EXCEPT !.display = ClearDisplay], 2)

\* 00E0
Op00E0(m) ==
    AdvancePc([m EXCEPT !.display = ClearDisplay, !.drawFlag = TRUE], 2)

\* Mutant of 00EE: pc = stack[sp] without pc += 2
Op00EE_NoAdvance(m, g) ==
    LET sp1 == U16(m.sp + 65535)
    IN  IF sp1 < STACK_SIZE
        THEN [m EXCEPT !.sp = sp1, !.pc = m.stack[sp1]]
        ELSE [m EXCEPT !.sp = sp1, !.pc = g.g16,
                       !.oob = @ \cup {OobAccess("stack", sp1, "read")}]

\* 00EE: --sp; pc = stack[sp]; pc += 2
Op00EE(m, g) ==
    LET sp1 == U16(m.sp + 65535)
    IN  IF sp1 < STACK_SIZE
        THEN [m EXCEPT !.sp = sp1, !.pc = U16(m.stack[sp1] + 2)]
        ELSE [m EXCEPT !.sp = sp1, !.pc = U16(g.g16 + 2),
                       !.oob = @ \cup {OobAccess("stack", sp1, "read")}]

\* 1nnn
Op1nnn(m, nnn) == [m EXCEPT !.pc = nnn]

\* 2nnn: stack[sp] = pc; ++sp; pc = nnn
Op2nnn(m, nnn) ==
    IF m.sp < STACK_SIZE
    THEN [m EXCEPT !.stack[m.sp] = m.pc, !.sp = U16(m.sp + 1), !.pc = nnn]
    ELSE [m EXCEPT !.sp = U16(m.sp + 1), !.pc = nnn,
                   !.oob = @ \cup {OobAccess("stack", m.sp, "write")}]

\* 3xnn
Op3xnn(m, x, nn) == IF m.V[x] = nn THEN AdvancePc(m, 4) ELSE AdvancePc(m, 2)

\* Mutant of 4xnn: the taken and not-taken branches swapped
Op4xnn_Swapped(m, x, nn) == IF m.V[x] = nn THEN AdvancePc(m, 4) ELSE AdvancePc(m, 2)

\* 4xnn
Op4xnn(m, x, nn) == IF m.V[x] = nn THEN AdvancePc(m, 2) ELSE AdvancePc(m, 4)

\* 5xy0
Op5xy0(m, x, y) == IF m.V[x] = m.V[y] THEN AdvancePc(m, 4) ELSE AdvancePc(m, 2)

\* 6xnn
Op6xnn(m, x, nn) == AdvancePc([m EXCEPT !.V[x] = nn], 2)

\* 7xnn
Op7xnn(m, x, nn) == AdvancePc([m EXCEPT !.V[x] = U8(m.V[x] + nn)], 2)

\* 8xy0
Op8xy0(m, x, y) == AdvancePc([m EXCEPT !.V[x] = m.V[y]], 2)

\* 8xy1
Op8xy1(m, x, y) == AdvancePc([m EXCEPT !.V[x] = BitOr(m.V[x], m.V[y])], 2)

\* 8xy2
Op8xy2(m, x, y) == AdvancePc([m EXCEPT !.V[x] = BitAnd(m.V[x], m.V[y])], 2)

\* 8xy3
Op8xy3(m, x, y) == AdvancePc([m EXCEPT !.V[x] = BitXor(m.V[x], m.V[y])], 2)

\* Mutant of 8xy4: the carry is never set
Op8xy4_NoCarry(m, x, y) ==
    LET sum == m.V[x] + m.V[y]
        m1 == [m EXCEPT !.V[15] = 0]
    IN  AdvancePc([m1 EXCEPT !.V[x] = sum % 256], 2)

\* 8xy4: sum = V[x] + V[y]; V[0xF] = sum > 0xFF; V[x] = sum & 0xFF
Op8xy4(m, x, y) ==
    LET sum == m.V[x] + m.V[y]
        m1 == [m EXCEPT !.V[15] = IF sum > 255 THEN 1 ELSE 0]
    IN  AdvancePc([m1 EXCEPT !.V[x] = sum % 256], 2)

\* 8xy5: V[0xF] = V[x] > V[y]; V[x] -= V[y]
Op8xy5(m, x, y) ==
    LET m1 == [m EXCEPT !.V[15] = IF m.V[x] > m.V[y] THEN 1 ELSE 0]
    IN  AdvancePc([m1 EXCEPT !.V[x] = U8(m1.V[x] - m1.V[y] + 256)], 2)

\* 8xy6: V[0xF] = V[x] & 1; V[x] >>= 1
Op8xy6(m, x) ==
    LET m1 == [m EXCEPT !.V[15] = m.V[x] % 2]
    IN  AdvancePc([m1 EXCEPT !.V[x] = m1.V[x] \div 2], 2)

\* 8xy7: V[0xF] = V[y] > V[x]; V[x] = V[y] - V[x]
Op8xy7(m, x, y) ==
    LET m1 == [m EXCEPT !.V[15] = IF m.V[y] > m.V[x] THEN 1 ELSE 0]
    IN  AdvancePc([m1 EXCEPT !.V[x] = U8(m1.V[y] - m1.V[x] + 256)], 2)

\* 8xyE: V[0xF] = (V[x] & 0x80) >> 7; V[x] <<= 1
Op8xyE(m, x) ==
    LET m1 == [m EXCEPT !.V[15] = m.V[x] \div 128]
    IN  AdvancePc([m1 EXCEPT !.V[x] = U8(m1.V[x] * 2)], 2)

\* 8xyN with no case: the message, and no change of pc
Op8Unknown(m) == [m EXCEPT !.diag = "Unknown 0x8 instruction"]

\* 9xy0
Op9xy0(m, x, y) == IF m.V[x] # m.V[y] THEN AdvancePc(m, 4) ELSE AdvancePc(m, 2)

\* Annn
OpAnnn(m, nnn) == AdvancePc([m EXCEPT !.I = nnn], 2)

\* Bnnn
OpBnnn(m, nnn) == [m EXCEPT !.pc = U16(nnn + m.V[0])]

\* Cxnn: rnd is rand() % 256
OpCxnn(m, x, nn, rnd) == AdvancePc([m EXCEPT !.V[x] = BitAnd(rnd, nn)], 2)

\* Mutant of the inner loop of Dxyn: display[index] |= 1
DrawRow_Or(m, cx, cy, row, g) ==
    LET sprite == ReadMem(m, m.I + row, g)
        hit == {(cy + row) * DISPLAY_WIDTH + (cx + col) :
                   col \in {c \in 0..7 : BitAnd(sprite, SpriteMask(c)) # 0}}
        inside == {i \in hit : i < DISPLAY_WIDTH * DISPLAY_HEIGHT}
        outside == hit \ inside
        collide == \/ \E i \in inside : m.display[i] = 1
                   \/ outside # {} /\ g.bit = 1
        m0 == NoteReadMem(m, m.I + row)
    IN  [m0 EXCEPT
            !.V[15] = IF collide THEN 1 ELSE @,
            !.display = [i \in DOMAIN m.display |->
                            IF i \in inside THEN 1 ELSE m.display[i]],
            !.oob = @ \cup {OobAccess("display", i, "write") : i \in outside}]

\* Dxyn, the inner loop for one sprite row.  The eight columns have eight
\* different indices, so each cell is read and toggled at most once:
\* if (display[index] == 1) V[0xF] = 1; display[index] ^= 1
DrawRow(m, cx, cy, row, g) ==
    LET sprite == ReadMem(m, m.I + row, g)
        hit == {(cy + row) * DISPLAY_WIDTH + (cx + col) :
                   col \in {c \in 0..7 : BitAnd(sprite, SpriteMask(c)) # 0}}
        inside == {i \in hit : i < DISPLAY_WIDTH * DISPLAY_HEIGHT}
        outside == hit \ inside
        collide == \/ \E i \in inside : m.display[i] = 1
                   \/ outside # {} /\ g.bit = 1
        m0 == NoteReadMem(m, m.I + row)
    IN  [m0 EXCEPT
            !.V[15] = IF collide THEN 1 ELSE @,
            !.display = [i \in DOMAIN m.display |->
                            IF i \in inside THEN BitXor(m.display[i], 1)
                            ELSE m.display[i]],
            !.oob = @ \cup {OobAccess("display", i, "write") : i \in outside}]

\* Dxyn, the outer loop from row on
RECURSIVE DrawSprite(_, _, _, _, _, _)
DrawSprite(m, cx, cy, height, row, g) ==
    IF row >= height THEN m
    ELSE DrawSprite(DrawRow(m, cx, cy, row, g), cx, cy, height, row + 1, g)

\* Dxyn
OpDxyn(m, x, y, n, g) ==
    LET cx == m.V[x] % DISPLAY_WIDTH
        cy == m.V[y] % DISPLAY_HEIGHT
        m1 == [m EXCEPT !.V[15] = 0]
    IN  AdvancePc([DrawSprite(m1, cx, cy, n, 0, g) EXCEPT !.drawFlag = TRUE], 2)

\* keypad[k], read
ReadKey(m, k, g) == IF k < KEYPAD_SIZE THEN m.keypad[k] ELSE g.bit

NoteReadKey(m, k) ==
    IF k < KEYPAD_SIZE THEN m
    ELSE [m EXCEPT !.oob = @ \cup {OobAccess("keypad", k, "read")}]

\* Ex9E
OpEx9E(m, x, g) ==
    IF ReadKey(m, m.V[x], g) # 0
    THEN AdvancePc(NoteReadKey(m, m.V[x]), 4)
    ELSE AdvancePc(NoteReadKey(m, m.V[x]), 2)

\* ExA1
OpExA1(m, x, g) ==
    IF ReadKey(m, m.V[x], g) = 0
    THEN AdvancePc(NoteReadKey(m, m.V[x]), 4)
    ELSE AdvancePc(NoteReadKey(m, m.V[x]), 2)

\* 0nnn other than 00E0 and 00EE, ExNN other than Ex9E and ExA1: no case
\* matches, nothing is written and pc is left alone
OpNoCase(m) == m

\* Fx07
OpFx07(m, x) == AdvancePc([m EXCEPT !.V[x] = m.delayTimer], 2)

\* The lowest index of a pressed key: the first i of the loop with keypad[i]
PressedKeys(m) == {i \in 0..(KEYPAD_SIZE - 1) : m.keypad[i] # 0}
FirstPressed(m) == CHOOSE i \in PressedKeys(m) : \A j \in PressedKeys(m) : i <= j

\* Mutant of Fx0A: pc += 2 also when no key is pressed
OpFx0A_NoWait(m, x) ==
    IF PressedKeys(m) = {}
    THEN AdvancePc(m, 2)
    ELSE AdvancePc([m EXCEPT !.V[x] = FirstPressed(m)], 2)

\* Fx0A
OpFx0A(m, x) ==
    IF PressedKeys(m) = {}
    THEN [m EXCEPT !.blocked = TRUE]
    ELSE AdvancePc([m EXCEPT !.V[x] = FirstPressed(m)], 2)

\* Fx15
OpFx15(m, x) == AdvancePc([m EXCEPT !.delayTimer = m.V[x]], 2)

\* Fx18
OpFx18(m, x) == AdvancePc([m EXCEPT !.soundTimer = m.V[x]], 2)

\* Fx1E
OpFx1E(m, x) == AdvancePc([m EXCEPT !.I = U16(m.I + m.V[x])], 2)

\* Fx29
OpFx29(m, x) == AdvancePc([m EXCEPT !.I = m.V[x] * 5], 2)

\* Fx33
OpFx33(m, x) ==
    LET value == m.V[x]
        m1 == WriteMem(m, m.I, value \div 100)
        m2 == WriteMem(m1, m.I + 1, (value \div 10) % 10)
        m3 == WriteMem(m2, m.I + 2, value % 10)
    IN  AdvancePc(m3, 2)

\* Fx55, the loop from i on
RECURSIVE StoreRegs(_, _, _)
StoreRegs(m, x, i) ==
    IF i > x THEN m ELSE StoreRegs(WriteMem(m, m.I + i, m.V[i]), x, i + 1)

\* Mutant of Fx55: I is left behind the last byte stored
OpFx55_MovesI(m, x) ==
    AdvancePc([StoreRegs(m, x, 0) EXCEPT !.I = U16(m.I + x + 1)], 2)

\* Fx55
OpFx55(m, x) == AdvancePc(StoreRegs(m, x, 0), 2)

\* Fx65, the loop from i on
RECURSIVE LoadRegs(_, _, _, _)
LoadRegs(m, x, i, g) ==
    IF i > x THEN m
    ELSE LoadRegs([NoteReadMem(m, m.I + i) EXCEPT !.V[i] = ReadMem(m, m.I + i, g)],
                  x, i + 1, g)

\* Fx65
OpFx65(m, x, g) == AdvancePc(LoadRegs(m, x, 0, g), 2)

\* FxNN with no case: the message, and no change of pc
OpFUnknown(m) == [m EXCEPT !.diag = "Unknown 0xF instruction"]

\* case 0x8000
Exec8(m, op) ==
    LET x == OpX(op)
        y == OpY(op)
        n == OpN(op)
    IN  CASE n = 0 -> Op8xy0(m, x, y)
          [] n = 1 -> Op8xy1(m, x, y)
          [] n = 2 -> Op8xy2(m, x, y)
          [] n = 3 -> Op8xy3(m, x, y)
          [] n = 4 -> Op8xy4(m, x, y)
          [] n = 5 -> Op8xy5(m, x, y)
          [] n = 6 -> Op8xy6(m, x)
          [] n = 7 -> Op8xy7(m, x, y)
          [] n = 14 -> Op8xyE(m, x)
          [] OTHER -> Op8Unknown(m)

\* case 0xE000
ExecE(m, op, g) ==
    CASE OpNN(op) = \h9E -> OpEx9E(m, OpX(op), g)
      [] OpNN(op) = \hA1 -> OpExA1(m, OpX(op), g)
      [] OTHER -> OpNoCase(m)

\* case 0xF000
ExecF(m, op, g) ==
    LET x == OpX(op)
        nn == OpNN(op)
    IN  CASE nn = \h07 -> OpFx07(m, x)
          [] nn = \h0A -> OpFx0A(m, x)
          [] nn = \h15 -> OpFx15(m, x)
          [] nn = \h18 -> OpFx18(m, x)
          [] nn = \h1E -> OpFx1E(m, x)
          [] nn = \h29 -> OpFx29(m, x)
          [] nn = \h33 -> OpFx33(m, x)
          [] nn = \h55 -> OpFx55(m, x)
          [] nn = \h65 -> OpFx65(m, x, g)
          [] OTHER -> OpFUnknown(m)

\* Chip8::executeOpcode: switch (opcode & 0xF000)
executeOpcode(m, op, rnd, g) ==
    LET top == op \div 4096
        x == OpX(op)
        y == OpY(op)
    IN  CASE top = 0 ->
                IF op = \h00E0 THEN Op00E0(m)
                ELSE IF op = \h00EE THEN Op00EE(m, g)
                ELSE OpNoCase(m)
          [] top = 1 -> Op1nnn(m, OpNNN(op))
          [] top = 2 -> Op2nnn(m, OpNNN(op))
          [] top = 3 -> Op3xnn(m, x, OpNN(op))
          [] top = 4 -> Op4xnn(m, x, OpNN(op))
          [] top = 5 -> Op5xy0(m, x, y)
          [] top = 6 -> Op6xnn(m, x, OpNN(op))
          [] top = 7 -> Op7xnn(m, x, OpNN(op))
          [] top = 8 -> Exec8(m, op)
          [] top = 9 -> Op9xy0(m, x, y)
          [] top = 10 -> OpAnnn(m, OpNNN(op))
          [] top = 11 -> OpBnnn(m, OpNNN(op))
          [] top = 12 -> OpCxnn(m, x, OpNN(op), rnd)
          [] top = 13 -> OpDxyn(m, x, y, OpN(op), g)
          [] top = 14 -> ExecE(m, op, g)
          [] OTHER -> ExecF(m, op, g)

\* Mutant of the timer decrements: no test for a timer above 0
TickTimers_Wrap(m) ==
    [m EXCEPT !.delayTimer = U8(@ + 255), !.soundTimer = U8(@ + 255)]

\* Chip8::emulateCycle, the two timer decrements
TickTimers(m) ==
    [m EXCEPT !.delayTimer = IF @ > 0 THEN @ - 1 ELSE @,
              !.soundTimer = IF @ > 0 THEN @ - 1 ELSE @]

\* Chip8::emulateCycle
emulateCycle(m, rnd, g) ==
    TickTimers(executeOpcode(NoteFetch(m), fetchOpcode(m, g), rnd, g))

\* Chip8::setKeyState
setKeyState(m, key, pressed) ==
    IF key < KEYPAD_SIZE
    THEN [m EXCEPT !.keypad[key] = IF pressed THEN 1 ELSE 0]
    ELSE m

(***************************************************************************)
(* ROM files.  A file is a byte sequence; the model draws it from a        *)
(* catalogue of short programs (16-bit words, first word at 0x200) and of  *)
(* files padded to the sizes around the capacity of the program area.      *)
(***************************************************************************)
\* The bytes of a sequence of opcodes, big-endian.
WordsToBytes(ws) ==
    [i \in 1..(2 * Len(ws)) |->
        IF i % 2 = 1 THEN ws[(i + 1) \div 2] \div 256 ELSE ws[i \div 2] % 256]

\* Routine k of a chain of nested subroutines at 0x200 + 4k: call routine
\* k + 1, then return; the main routine (k = 0) halts in a jump to itself
\* and the last routine only returns.
ChainWord(depth, i) ==
    LET k == (i - 1) \div 2
    IN  IF i % 2 = 1
        THEN (IF k < depth THEN \h2000 + PROGRAM_START + 4 * (k + 1) ELSE \h00EE)
        ELSE (IF k = 0 THEN \h1000 + PROGRAM_START + 2 ELSE \h00EE)

CallChain(depth) == [i \in 1..(2 * depth + 1) |-> ChainWord(depth, i)]

Programs ==
    << \* 1: timers, then wait for a key
       << \h6005, \hF015, \h6003, \hF018, \hF30A, \hF407, \h120C >>,
       \* 2..5: opcodes no case matches
       << \h6A01, \h0123, \h6B02 >>,
       << \h6A01, \h8128, \h6B02 >>,
       << \h6A01, \hE100, \h6B02 >>,
       << \h6A01, \hF1FF, \h6B02 >>,
       \* 6: two nested calls and their returns
       << \h2206, \h1202, \h0000, \h220A, \h00EE, \h00EE >>,
       \* 7, 8: 16 and 17 nested calls
       CallChain(STACK_SIZE),
       CallChain(STACK_SIZE + 1),
       \* 9: a return with an empty stack
       << \h00EE >>,
       \* 10, 11: jumps to the last byte of memory and beyond
       << \h1FFF >>,
       << \h60FF, \hBF01 >>,
       \* 12: BCD, register block and sprite accesses at I = 0xFFE and beyond
       << \h60FF, \h6107, \hAFFE, \hF033, \hF255, \hF265, \hD013,
          \hF01E, \hF033, \hF165, \h1214 >>,
       \* 13: key skips with Vx = 1 and Vx = 16
       << \h6201, \hE29E, \h6A01, \hE2A1, \h6B01, \h6210, \hE29E, \h6C01,
          \hE2A1, \h6D01, \h1214 >>,
       \* 14: the glyph of 0 drawn across the right edge, twice inside the
       \* screen and across the bottom edge, and a clear
       << \h603E, \h6103, \hA050, \hD015, \h6005, \hD015, \hD015,
          \h6000, \h611E, \hD015, \h00E0, \h1216 >>,
       \* 15: BCD and register block inside memory
       << \h60EA, \h6107, \hA300, \hF033, \hF165, \hA310, \hF155, \hC30F, \h1210 >>,
       \* 16: the glyph of 0 at (5, 3), then twice at (6, 3) over it, then
       \* twice at (VF, 3) with VF = 0
       << \h6005, \h6103, \hA050, \hD015, \h6006, \hD015, \hD015,
          \h6F00, \hDF15, \hDF15, \h1214 >>,
       \* 17: 8xy4, 8xy5, 8xy7, 7xnn, 8xy6, 8xyE with x and y below F
       << \h60FF, \h6101, \h8014,
          \h6001, \h6102, \h8015,
          \h6005, \h6105, \h8015,
          \h6007, \h6103, \h8015,
          \h6002, \h6101, \h8017,
          \h6003, \h6103, \h8017,
          \h6001, \h6104, \h8017,
          \h60F0, \h7020,
          \h6003, \h8006,
          \h6081, \h800E,
          \h1236 >>,
       \* 18: the same instructions with x = F or y = F
       << \h6F01, \h6001, \h8F04,
          \h6FF0, \h6020, \h8F04,
          \h6F03, \h8F06,
          \h6F81, \h8F0E,
          \h6F05, \h6003, \h8F05,
          \h6F05, \h6003, \h8F07,
          \h6F02, \h6005, \h80F5,
          \h6F01, \h60FF, \h80F4,
          \h122C >>,
       \* 19: the address of the glyph of 3, and the glyph drawn
       << \h6003, \hF029, \hD005, \h1206 >>,
       \* 20: every skip, taken and not taken
       << \h6005, \h3005, \h6A01, \h3006, \h6B01, \h4005, \h6C01, \h4006,
          \h6D01, \h6105, \h5010, \h6E01, \h9010, \h6106, \h5010, \h9010,
          \h6A02, \h1222 >>,
       \* 21: BCD and register block stored over the font
       << \h60EA, \hA050, \hF033, \hA09E, \hF155, \h120A >>,
       \* 22: a register block stored, the registers changed, and loaded back
       << \h6011, \h6122, \h62FF, \hA300, \hF155, \h6000, \h6100, \hF165,
          \h1210 >>
    >>

\* Byte i (from 0) of the padding of a large file: the opcodes 6xnn.
PadByte(i) ==
    IF i % 2 = 0 THEN \h60 + ((i \div 2) % 16) ELSE (i \div 2) % 256

\* The words large files start with: a jump to the last opcode of memory.
BigProgram == << \h1FFE >>

\* The capacity of the program area, 4096 - 0x200.
ProgramSpace == MEMORY_SIZE - PROGRAM_START

\* The sizes of the large files.
BigSizes == {ProgramSpace, ProgramSpace + 1, MEMORY_SIZE, MEMORY_SIZE + 1}

RomFiles ==
    {[exists |-> TRUE, prog |-> p, size |-> 2 * Len(Programs[p])] :
        p \in 1..Len(Programs)}
    \cup {[exists |-> TRUE, prog |-> 0, size |-> n] : n \in BigSizes}
    \cup {[exists |-> FALSE, prog |-> 0, size |-> 0]}

\* The content of a file: byte i (from 0)
FileByte(f, i) ==
    LET head == WordsToBytes(IF f.prog = 0 THEN BigProgram ELSE Programs[f.prog])
    IN  IF i < Len(head) THEN head[i + 1] ELSE PadByte(i)

(***************************************************************************)
(* Chip8::loadROM.                                                         *)
(***************************************************************************)
\* The size check that ends the process with exit(1).
LoadExits(f) == f.exists /\ f.size > MEMORY_SIZE

loadROM(m, f) ==
    IF ~f.exists
    THEN [m EXCEPT !.diag = "Failed to open ROM"]
    ELSE IF f.size > MEMORY_SIZE
    THEN [m EXCEPT !.diag = "ROM FILE size exceeded limits"]
    ELSE [m EXCEPT
            !.memory = [a \in 0..(MEMORY_SIZE - 1) |->
                          IF a >= PROGRAM_START /\ a - PROGRAM_START < f.size
                          THEN FileByte(f, a - PROGRAM_START) ELSE m.memory[a]],
            !.oob = {OobAccess("memory", PROGRAM_START + i, "load") :
                        i \in ProgramSpace..(f.size - 1)}]

(***************************************************************************)
(* main: the key map of the event loop (SDL key, keypad index).            *)
(***************************************************************************)
KeySyms ==
    << "1", "2", "3", "4", "q", "w", "e", "r", "a", "s", "d", "f", "z", "x", "c", "v" >>
KeyCodes ==
    << 1, 2, 3, 12, 4, 5, 6, 13, 7, 8, 9, 14, 10, 0, 11, 15 >>

\* The keys whose events the model delivers.
EventKeys == 1..(IF MaxKeySym < Len(KeySyms) THEN MaxKeySym ELSE Len(KeySyms))

\* The values of rand() % 256 the model draws.
RandValues == (0..MaxRand) \cup {255}

(***************************************************************************)
(* The state after the construction of the Chip8 object in main.           *)
(***************************************************************************)
Init ==
    /\ memory = InitMemory
    /\ V = [i \in 0..(REGISTER_COUNT - 1) |-> 0]
    /\ I = 0
    /\ pc = PROGRAM_START
    /\ stack = [i \in 0..(STACK_SIZE - 1) |-> 0]
    /\ sp = 0
    /\ display = ClearDisplay
    /\ keypad = [i \in 0..(KEYPAD_SIZE - 1) |-> 0]
    /\ delayTimer = 0
    /\ soundTimer = 0
    /\ drawFlag = FALSE
    /\ opcode = 0
    /\ blocked = FALSE
    /\ diag = "none"
    /\ oob = {}
    /\ romFile \in RomFiles
    /\ running = TRUE
    /\ phase = "load"
    /\ lastDisplay = ClearDisplay
    /\ lastV = [i \in 0..(REGISTER_COUNT - 1) |-> 0]
    /\ rendered = FALSE

\* The fields of the object become those of m.
Commit(m) ==
    /\ memory' = m.memory
    /\ V' = m.V
    /\ I' = m.I
    /\ pc' = m.pc
    /\ stack' = m.stack
    /\ sp' = m.sp
    /\ display' = m.display
    /\ keypad' = m.keypad
    /\ delayTimer' = m.delayTimer
    /\ soundTimer' = m.soundTimer
    /\ drawFlag' = m.drawFlag
    /\ blocked' = m.blocked
    /\ diag' = m.diag
    /\ oob' = m.oob

\* The process dies in an operation that accessed outside an array.
Crash(m) ==
    /\ m.oob # {}
    /\ oob' = m.oob
    /\ phase' = "crashed"
    /\ UNCHANGED << memory, V, I, pc, stack, sp, display, keypad, delayTimer,
                    soundTimer, drawFlag, blocked, diag >>

\* chip8.loadROM(argv[1])
LoadROM ==
    /\ phase = "load"
    /\ LET m == loadROM(Machine, romFile)
       IN  \/ /\ Commit(m)
              /\ phase' = IF LoadExits(romFile) THEN "exited" ELSE "events"
           \/ Crash(m)
    /\ UNCHANGED << opcode, romFile, running, lastDisplay, lastV, rendered >>

\* while (SDL_PollEvent(&event)): SDL_KEYDOWN or SDL_KEYUP of a mapped key
KeyEvent ==
    /\ phase = "events"
    /\ \E k \in EventKeys, pressed \in BOOLEAN :
          Commit(setKeyState(Machine, KeyCodes[k], pressed))
    /\ UNCHANGED << opcode, romFile, running, phase, lastDisplay, lastV,
                    rendered >>

\* while (SDL_PollEvent(&event)): SDL_QUIT
QuitEvent ==
    /\ phase = "events"
    /\ running
    /\ running' = FALSE
    /\ UNCHANGED << memory, V, I, pc, stack, sp, display, keypad, delayTimer,
                    soundTimer, drawFlag, opcode, blocked, diag, oob, romFile,
                    phase, lastDisplay, lastV, rendered >>

\* The inputs a cycle can depend on: rand() is called by Cxnn alone, and an
\* arbitrary value is read only by a cycle that accesses outside an array.
NoGarbage == [g8 |-> 0, g16 |-> 0, bit |-> 0]
RandInputs(m) ==
    IF fetchOpcode(m, NoGarbage) \div 4096 = 12 THEN RandValues ELSE {0}
CycleGarbage(m) ==
    IF emulateCycle(m, 0, NoGarbage).oob = {} THEN {NoGarbage} ELSE GarbageInputs

\* chip8.emulateCycle(), once the event queue is empty
EmulateCycle ==
    /\ phase = "events"
    /\ \E rnd \in RandInputs(Machine), g \in CycleGarbage(Machine) :
          LET m == emulateCycle(Machine, rnd, g)
          IN  /\ opcode' = fetchOpcode(Machine, g)
              /\ \/ Commit(m) /\ phase' = "draw"
                 \/ Crash(m)
    /\ lastDisplay' = display
    /\ lastV' = V
    /\ rendered' = FALSE
    /\ UNCHANGED << romFile, running >>

\* Mutant of renderDisplay: the frame is presented, drawFlag stays
renderDisplay_KeepsFlag(m) == m

\* Chip8::renderDisplay
renderDisplay(m) == [m EXCEPT !.drawFlag = FALSE]

\* The position after the loop body: while (running)
NextPhase == IF running THEN "events" ELSE "stopped"

\* if (chip8.shouldDraw()) chip8.renderDisplay(renderer)
Render ==
    /\ phase = "draw"
    /\ drawFlag
    /\ drawFlag' = renderDisplay(Machine).drawFlag
    /\ phase' = NextPhase
    /\ rendered' = TRUE
    /\ UNCHANGED << memory, V, I, pc, stack, sp, display, keypad, delayTimer,
                    soundTimer, opcode, blocked, diag, oob, romFile, running,
                    lastDisplay, lastV >>

\* shouldDraw() is false: nothing is rendered
SkipRender ==
    /\ phase = "draw"
    /\ ~drawFlag
    /\ phase' = NextPhase
    /\ UNCHANGED << memory, V, I, pc, stack, sp, display, keypad, delayTimer,
                    soundTimer, drawFlag, opcode, blocked, diag, oob, romFile,
                    running, lastDisplay, lastV, rendered >>

Next ==
    \/ LoadROM
    \/ KeyEvent
    \/ QuitEvent
    \/ EmulateCycle
    \/ Render
    \/ SkipRender

Spec == Init /\ [][Next]_vars

(***************************************************************************)
(* Properties.  A step of emulateCycle that completes is a CycleStep; the  *)
(* opcode it executed is opcode'.  Since an access outside an array makes  *)
(* the behaviour of the real program undefined, what a cycle guarantees is *)
(* stated for the cycles that make no such access (oob' = {}).             *)
(***************************************************************************)
CycleStep == phase = "events" /\ phase' = "draw"
FetchInBounds == pc + 1 < MEMORY_SIZE
IsFx(op, nn) == op \div 4096 = 15 /\ op % 256 = nn

\* C1: when the instruction at pc is Fx0A, a cycle with no key pressed
\* leaves pc (and the instruction there) unchanged, so the next cycle
\* executes Fx0A again; a cycle with a key pressed advances pc by 2 and
\* leaves in Vx the lowest index of a pressed key.
C1_WaitForKey ==
    [][ (CycleStep /\ FetchInBounds /\ IsFx(opcode', 10)) =>
            IF \A i \in 0..(KEYPAD_SIZE - 1) : keypad[i] = 0
            THEN pc' = pc /\ memory' = memory /\ keypad' = keypad /\ blocked'
            ELSE /\ pc' = pc + 2
                 /\ ~blocked'
                 /\ V'[OpX(opcode')] \in 0..(KEYPAD_SIZE - 1)
                 /\ keypad[V'[OpX(opcode')]] # 0
                 /\ \A j \in 0..(KEYPAD_SIZE - 1) :
                        j < V'[OpX(opcode')] => keypad[j] = 0 ]_vars

\* C1 witness: program 1 has left Fx0A at 0x208 with keys 1 and 2 down and
\* V3 = 1, in a cycle later than the first one that executed Fx0A (the
\* delay timer, 1 after the first, has reached 0).
C1_Witness ==
    /\ phase = "draw"
    /\ romFile.prog = 1
    /\ opcode = \hF30A
    /\ pc = \h20A
    /\ keypad[1] = 1 /\ keypad[2] = 1
    /\ V[3] = 1
    /\ delayTimer = 0

\* C2: a cycle blocked in Fx0A changes no field of the machine, the delay
\* timer and the sound timer included.
C2_BlockedCycleChangesNothing ==
    [][ (CycleStep /\ blocked') =>
            UNCHANGED << memory, V, I, pc, stack, sp, display, keypad,
                         delayTimer, soundTimer, drawFlag >> ]_vars

\* The opcodes no case of executeOpcode matches.
Unrecognized(op) ==
    \/ op \div 4096 = 0 /\ op \notin {\h00E0, \h00EE}
    \/ op \div 4096 = 8 /\ OpN(op) \in (8..13) \cup {15}
    \/ op \div 4096 = 14 /\ OpNN(op) \notin {\h9E, \hA1}
    \/ op \div 4096 = 15 /\
          OpNN(op) \notin {\h07, \h0A, \h15, \h18, \h1E, \h29, \h33, \h55, \h65}

\* C3: a cycle that executes an unrecognized opcode advances pc by 2.
C3_UnknownOpcodeAdvances ==
    [][ (CycleStep /\ FetchInBounds /\ Unrecognized(opcode')) => pc' = pc + 2 ]_vars

\* C4: a cycle that does not execute Fx15 lowers a nonzero delay timer by 1
\* and leaves a zero delay timer at 0 (so N such cycles from D leave
\* max(0, D - N)); the same for the sound timer and Fx18.
C4_TimersCountDown ==
    [][ (CycleStep /\ oob' = {}) =>
            /\ ~IsFx(opcode', \h15) =>
                  delayTimer' = IF delayTimer > 0 THEN delayTimer - 1 ELSE 0
            /\ ~IsFx(opcode', \h18) =>
                  soundTimer' = IF soundTimer > 0 THEN soundTimer - 1 ELSE 0 ]_vars

\* C4 witness: program 1 set the delay timer to 5 and the sound timer to 3,
\* executed more than 5 cycles and read the delay timer back as 0.
C4_Witness ==
    /\ phase = "draw"
    /\ romFile.prog = 1
    /\ opcode = \hF407
    /\ V[0] = 3
    /\ V[4] = 0
    /\ delayTimer = 0
    /\ soundTimer = 0

\* C5: sp is in 0..15 in every state and no operation accesses the stack
\* outside its 16 slots.
C5_StackInBounds ==
    /\ sp \in 0..(STACK_SIZE - 1)
    /\ \A a \in oob : a.arr # "stack"

\* C6: 2nnn at p stores p in stack[sp], increments sp and keeps the slots
\* below; 00EE decrements sp and sets pc to the stored call site plus 2; no
\* other instruction changes sp or the stack.  Hence the returns of properly
\* nested calls restore the call sites last in, first out.
C6_CallReturn ==
    [][ (CycleStep /\ FetchInBounds /\ oob' = {}) =>
            IF opcode' \div 4096 = 2
            THEN /\ sp < STACK_SIZE
                 /\ sp' = sp + 1
                 /\ stack'[sp] = pc
                 /\ \A k \in 0..(STACK_SIZE - 1) : k # sp => stack'[k] = stack[k]
                 /\ pc' = OpNNN(opcode')
            ELSE IF opcode' = \h00EE
            THEN /\ sp \in 1..STACK_SIZE
                 /\ sp' = sp - 1
                 /\ pc' = stack[sp - 1] + 2
                 /\ stack' = stack
            ELSE sp' = sp /\ stack' = stack ]_vars

\* C6 witness: program 7 nested 16 calls (the deepest call site is still in
\* stack[15]) and the last return has brought pc to the first call site,
\* 0x200, plus 2 and sp to 0.
C6_Witness ==
    /\ phase = "draw"
    /\ romFile.prog = 7
    /\ opcode = \h00EE
    /\ sp = 0
    /\ pc = PROGRAM_START + 2
    /\ stack[0] = PROGRAM_START
    /\ stack[STACK_SIZE - 1] = PROGRAM_START + 4 * (STACK_SIZE - 1)

\* C7: no opcode fetch reads memory at an index above 4095.
C7_FetchReadsInBounds == \A a \in oob : a.kind # "fetch"

\* C8: no instruction reads or writes memory or the keypad outside the
\* array through an index it derived from I or from a register.
C8_OperandsChecked ==
    \A a \in oob : ~(a.arr \in {"memory", "keypad"} /\ a.kind \in {"read", "write"})

\* C9: loading a file of at most 3584 bytes copies byte i to
\* memory[0x200 + i]; loading a larger file reports an error, changes no
\* field of the machine and writes nothing outside memory.
C9_LoadCapacity ==
    [][ (phase = "load" /\ romFile.exists) =>
            IF romFile.size <= ProgramSpace
            THEN \A i \in 0..(romFile.size - 1) :
                    memory'[PROGRAM_START + i] = FileByte(romFile, i)
            ELSE /\ UNCHANGED << memory, V, I, pc, stack, sp, display, keypad,
                                 delayTimer, soundTimer, drawFlag >>
                 /\ oob' = {}
                 /\ diag' # "none" ]_vars

\* C10: Dxyn with origin (cx, cy) = (Vx mod 64, Vy mod 32) changes only
\* display cells in columns cx..min(cx+8,64)-1 of rows cy..min(cy+n,32)-1
\* and accesses no cell outside the display.
C10_SpriteClipped ==
    [][ (CycleStep /\ FetchInBounds /\ opcode' \div 4096 = 13) =>
            LET cx == V[OpX(opcode')] % DISPLAY_WIDTH
                cy == V[OpY(opcode')] % DISPLAY_HEIGHT
                n == OpN(opcode')
            IN  /\ \A i \in DOMAIN display :
                      display'[i] # display[i] =>
                         /\ i % DISPLAY_WIDTH >= cx
                         /\ i % DISPLAY_WIDTH < cx + 8
                         /\ i \div DISPLAY_WIDTH >= cy
                         /\ i \div DISPLAY_WIDTH < cy + n
                /\ \A a \in oob' : a.arr # "display" ]_vars

\* The display cells the sprite of a Dxyn at pc addresses, from the state
\* before the draw: one cell for each set bit of memory[I .. I + n - 1].
SpriteCells(op) ==
    LET cx == V[OpX(op)] % DISPLAY_WIDTH
        cy == V[OpY(op)] % DISPLAY_HEIGHT
    IN  {(cy + row) * DISPLAY_WIDTH + (cx + col) :
            <<row, col>> \in
               {rc \in (0..(OpN(op) - 1)) \X (0..7) :
                   BitAnd(memory[I + rc[1]], SpriteMask(rc[2])) # 0}}

\* A Dxyn that reads its sprite inside memory and draws inside the display.
DrawInBounds(op) ==
    /\ I + OpN(op) <= MEMORY_SIZE
    /\ \A c \in SpriteCells(op) : c < DISPLAY_WIDTH * DISPLAY_HEIGHT

\* C11: when a cycle executes the Dxyn the cycle before it executed, with
\* the same Vx and Vy (I and memory are not changed by a draw), the display
\* after it equals the display before the first of the two draws; if the
\* cells of the sprite were clear then and the sprite has a set bit, VF is 0
\* after the first draw and 1 after the second.
C11_DrawTwiceRestores ==
    [][ ( /\ CycleStep
          /\ FetchInBounds
          /\ opcode' \div 4096 = 13
          /\ opcode = opcode'
          /\ V[OpX(opcode')] = lastV[OpX(opcode')]
          /\ V[OpY(opcode')] = lastV[OpY(opcode')]
          /\ DrawInBounds(opcode') ) =>
            /\ display' = lastDisplay
            /\ ( /\ SpriteCells(opcode') # {}
                 /\ \A c \in SpriteCells(opcode') : lastDisplay[c] = 0 ) =>
                    V[15] = 0 /\ V'[15] = 1 ]_vars

\* C11 witness: program 14 has drawn the glyph of 0 twice at (5, 3) on a
\* clear area: VF was 0 after the first draw and is 1 now, the cells the
\* first draw had set are clear again.
C11_Witness ==
    /\ phase = "draw"
    /\ romFile.prog = 14
    /\ opcode = \hD015
    /\ pc = \h20E
    /\ V[0] = 5
    /\ lastV[15] = 0
    /\ V[15] = 1
    /\ \A c \in 5..8 : lastDisplay[3 * DISPLAY_WIDTH + c] = 1
    /\ \A c \in 5..8 : display[3 * DISPLAY_WIDTH + c] = 0

\* A cycle that executes the ALU instruction 8xyN without an access outside
\* the arrays.
IsAlu(op, n) == op \div 4096 = 8 /\ OpN(op) = n
AluStep(n) == CycleStep /\ FetchInBounds /\ oob' = {} /\ IsAlu(opcode', n)

\* C12: after 8xy5 with a = Vx and b = Vy, Vx = (a - b) mod 256 and VF = 1
\* exactly when a >= b; after 8xy7, Vx = (b - a) mod 256 and VF = 1 exactly
\* when b >= a (stated for x and y below F, where Vx and VF are two
\* registers).
C12_SubNoBorrow ==
    [][ \A n \in {5, 7} :
          ( /\ AluStep(n)
            /\ OpX(opcode') # 15
            /\ OpY(opcode') # 15 ) =>
              LET a == IF n = 5 THEN V[OpX(opcode')] ELSE V[OpY(opcode')]
                  b == IF n = 5 THEN V[OpY(opcode')] ELSE V[OpX(opcode')]
              IN  /\ V'[OpX(opcode')] = (a - b + 256) % 256
                  /\ V'[15] = IF a >= b THEN 1 ELSE 0 ]_vars

\* C13 as stated: for all x and y, after 8xy4 with a = Vx and b = Vy,
\* Vx = (a + b) mod 256 and VF = 1 if a + b > 255, else 0.
C13_AddAllRegisters ==
    [][ AluStep(4) =>
          LET sum == V[OpX(opcode')] + V[OpY(opcode')]
          IN  /\ V'[OpX(opcode')] = sum % 256
              /\ V'[15] = IF sum > 255 THEN 1 ELSE 0 ]_vars

\* C13: for all y and all x other than F, after 8xy4 with a = Vx and b = Vy,
\* Vx = (a + b) mod 256 and VF = 1 if a + b > 255, else 0; after 7xnn,
\* Vx = (a + nn) mod 256 for all x, and VF is unchanged for x other than F.
C13_AddCarry ==
    [][ /\ ( AluStep(4) /\ OpX(opcode') # 15 ) =>
              LET sum == V[OpX(opcode')] + V[OpY(opcode')]
              IN  /\ V'[OpX(opcode')] = sum % 256
                  /\ V'[15] = IF sum > 255 THEN 1 ELSE 0
        /\ ( CycleStep /\ FetchInBounds /\ oob' = {} /\ opcode' \div 4096 = 7 ) =>
              /\ V'[OpX(opcode')] = (V[OpX(opcode')] + OpNN(opcode')) % 256
              /\ OpX(opcode') # 15 => V'[15] = V[15] ]_vars

\* C13 witness: program 17 has executed 8014 with V0 = 0xFF and V1 = 0x01:
\* V0 is 0x00 and VF is 1.
C13_Witness ==
    /\ phase = "draw"
    /\ romFile.prog = 17
    /\ opcode = \h8014
    /\ lastV[0] = \hFF
    /\ lastV[1] = 1
    /\ lastV[15] = 0
    /\ V[0] = 0
    /\ V[15] = 1

\* C14: after Fx29 with a digit in Vx, I = 0x50 + 5 * Vx and
\* memory[I .. I + 4] are the five glyph rows of that digit.
C14_FontAddress ==
    [][ ( /\ CycleStep
          /\ FetchInBounds
          /\ oob' = {}
          /\ IsFx(opcode', \h29)
          /\ V[OpX(opcode')] < 16 ) =>
            /\ I' = FONT_BASE + 5 * V[OpX(opcode')]
            /\ \A r \in 0..4 :
                  memory'[I' + r] = fontset[5 * V[OpX(opcode')] + r + 1] ]_vars

\* The skip condition of the conditional skips 3xnn, 4xnn, 5xy0 and 9xy0.
SkipTaken(op) ==
    CASE op \div 4096 = 3 -> V[OpX(op)] = OpNN(op)
      [] op \div 4096 = 4 -> V[OpX(op)] # OpNN(op)
      [] op \div 4096 = 5 -> V[OpX(op)] = V[OpY(op)]
      [] op \div 4096 = 9 -> V[OpX(op)] # V[OpY(op)]

\* C15: a cycle that executes 3xnn, 4xnn, 5xy0 or 9xy0 advances pc by 4
\* when the skip condition holds (Vx = nn, Vx # nn, Vx = Vy, Vx # Vy) and by
\* 2 otherwise.
C15_SkipTakenIffCondition ==
    [][ ( /\ CycleStep
          /\ FetchInBounds
          /\ opcode' \div 4096 \in {3, 4, 5, 9} ) =>
            pc' = pc + (IF SkipTaken(opcode') THEN 4 ELSE 2) ]_vars

\* C15 witness: program 20 has run each of the four skips once with its
\* condition true and once with it false; the register writes behind the
\* taken skips (VA, VD, VE) did not happen, those behind the others did.
C15_Witness ==
    /\ phase = "draw"
    /\ romFile.prog = 20
    /\ opcode = \h1222
    /\ pc = \h222
    /\ V[0] = 5
    /\ V[1] = 6
    /\ V[10] = 0
    /\ V[11] = 1
    /\ V[12] = 1
    /\ V[13] = 0
    /\ V[14] = 0

\* C16: a cycle changes the display only when it executes 00E0 or Dxyn;
\* after 00E0 every cell is 0; after 00E0 and after Dxyn the redraw flag is
\* true; no cycle clears the redraw flag, the only step that clears it is
\* the renderDisplay of the loop.
C16_DisplayAndFlag ==
    [][ /\ ( CycleStep /\ FetchInBounds /\ oob' = {} ) =>
              /\ display' # display =>
                    (opcode' = \h00E0 \/ opcode' \div 4096 = 13)
              /\ opcode' = \h00E0 => (display' = ClearDisplay /\ drawFlag')
              /\ opcode' \div 4096 = 13 => drawFlag'
              /\ drawFlag => drawFlag'
        /\ ( drawFlag /\ ~drawFlag' ) =>
              (phase = "draw" /\ phase' \in {"events", "stopped"})
        /\ display' # display => CycleStep ]_vars

\* C16 witness: program 14 has executed 00E0 on a display with set cells;
\* the display is clear and the redraw flag is set.
C16_Witness ==
    /\ phase = "draw"
    /\ romFile.prog = 14
    /\ opcode = \h00E0
    /\ lastDisplay # ClearDisplay
    /\ display = ClearDisplay
    /\ drawFlag

\* C17: memory[0x50 .. 0x9F] equals the font table in every state.
C17_FontIntact ==
    \A a \in 0..(FONTSET_SIZE - 1) : memory[FONT_BASE + a] = fontset[a + 1]

\* C18, the case x = F: after 8Fy4, 8Fy5, 8Fy6, 8Fy7 and 8FyE, VF holds the
\* flag of the instruction computed from the prior values a = VF and b = Vy
\* (carry, not-borrow, shifted-out bit), not the arithmetic result.
C18_FlagSurvives ==
    [][ \A n \in {4, 5, 6, 7, 14} :
          ( AluStep(n) /\ OpX(opcode') = 15 ) =>
              LET a == V[15]
                  b == V[OpY(opcode')]
              IN  V'[15] = CASE n = 4 -> IF a + b > 255 THEN 1 ELSE 0
                             [] n = 5 -> IF a >= b THEN 1 ELSE 0
                             [] n = 6 -> a % 2
                             [] n = 7 -> IF b >= a THEN 1 ELSE 0
                             [] n = 14 -> a \div 128 ]_vars

\* C19: Fx55 copies V0 .. Vx to memory[I .. I + x] and changes no other
\* byte, no register and not I; Fx65 copies memory[I .. I + x] to V0 .. Vx
\* and changes no register above Vx, no byte and not I.  So an Fx65 that
\* finds in memory[I .. I + x] the bytes an Fx55 stored leaves in V0 .. Vx
\* the values they had at the Fx55.
C19_StoreLoadInclusive ==
    [][ /\ ( CycleStep /\ FetchInBounds /\ oob' = {} /\ IsFx(opcode', \h55) ) =>
              /\ \A i \in 0..OpX(opcode') : memory'[I + i] = V[i]
              /\ \A a \in DOMAIN memory :
                    (a < I \/ a > I + OpX(opcode')) => memory'[a] = memory[a]
              /\ V' = V
              /\ I' = I
        /\ ( CycleStep /\ FetchInBounds /\ oob' = {} /\ IsFx(opcode', \h65) ) =>
              /\ \A i \in 0..OpX(opcode') : V'[i] = memory[I + i]
              /\ \A j \in (OpX(opcode') + 1)..(REGISTER_COUNT - 1) : V'[j] = V[j]
              /\ memory' = memory
              /\ I' = I ]_vars

\* C19 witness: program 22 stored V0 = 0x11 and V1 = 0x22 with F155 at
\* I = 0x300, zeroed both and has executed F165: V0 and V1 are back, V2 was
\* neither stored nor loaded.
C19_Witness ==
    /\ phase = "draw"
    /\ romFile.prog = 22
    /\ opcode = \hF165
    /\ I = \h300
    /\ lastV[0] = 0
    /\ lastV[1] = 0
    /\ V[0] = \h11
    /\ V[1] = \h22
    /\ V[2] = \hFF
    /\ memory[\h300] = \h11
    /\ memory[\h301] = \h22
    /\ memory[\h302] = 0

\* C20: in the loop of main the redraw flag is false whenever the loop is
\* at its event processing, so at the start of every emulateCycle; leaving
\* the render position, renderDisplay has run exactly when the cycle left
\* the flag set, and it runs at most once (it has not run while the loop is
\* still at the render position); the keypad changes only in a step of the
\* event processing, never in a cycle or a render.
C20_LoopRendersOnFlag ==
    [][ /\ phase = "events" => ~drawFlag
        /\ phase' = "events" => ~drawFlag'
        /\ phase' = "draw" => ~rendered'
        /\ ( phase = "draw" /\ phase' # "draw" ) =>
              /\ rendered' <=> drawFlag
              /\ ~drawFlag'
        /\ keypad' # keypad => ( phase = "events" /\ phase' = "events" ) ]_vars

\* C20 witness: the loop is back at its event processing after a Dxyn that
\* set cells and the render that followed it, and a key went down since.
C20_Witness ==
    /\ phase = "events"
    /\ opcode \div 4096 = 13
    /\ display # ClearDisplay
    /\ rendered
    /\ ~drawFlag
    /\ \E k \in DOMAIN keypad : keypad[k] = 1

=============================================================================
